---- MODULE Spec2Model ----
(***************************************************************************)
(* A model of spacestream's SpaceStreamPipeline (SpaceStreamPipeline.py):  *)
(* the pipeline object's fields, the operator's live edits of the codec    *)
(* and distance range, and the _init / _process / _release lifecycle with  *)
(* _process split at every read of a field another thread can write.       *)
(* The codec contract, the remapping curves and the inversion of an         *)
(* estimated depth buffer are followed on one sample each, under           *)
(* specifications of their own.                                            *)
(*                                                                         *)
(* Distances and depth units are exact rationals: both are counted in      *)
(* micrometres, so min_distance = 6 (metres) is 6000000 and                *)
(* depth_units = 0.001 is 1000.                                            *)
(***************************************************************************)
EXTENDS Integers, Sequences, FiniteSets, TLC

VARIABLES
    \* constructor arguments (fixed after __init__)
    inputKind,      \* "RealSense" | "Depth" | "RGB": the class of self.input
    record,         \* self.record
    sensorUnits,    \* what input.depth_frame.get_units() reports
    \* fields of the pipeline
    codec,          \* self.codec.value: the selected DepthCodecType
    depth_codec,    \* self.depth_codec: [variant, id], id names the instance
    min_distance,   \* self.min_distance
    max_distance,   \* self.max_distance
    depth_units,    \* self.depth_units
    recorder,       \* self.recorder: "none" | "open" | "closed"
    fbs,            \* fbs_client: "new" | "setup" | "released"
    \* the lifecycle and the position inside _process
    phase,          \* "constructed" | "running" | "released"
    thread,         \* the thread inside _process, "none" between two calls
    pc,             \* position of the pipeline thread inside _process
    frameNo,        \* number of frames input.read() has returned
    \* locals of _process
    frame,          \* line 141: None outside a call, Miss, or the frame read
    min_value,      \* line 177
    max_value,      \* line 178
    rgbd,           \* line 194 / 197: the composite, None before it is built
    bgrd,           \* line 201: Unbound until the main thread assigns it
    calls,          \* the encode and send calls the call has made, in order
    \* what the collaborators were called with
    lastEncode,     \* the arguments of the last depth_codec.encode call
    fbsCalls,       \* set of <<call, thread>> the transport has received
    lastSent,       \* the image of the last fbs_client.send
    recorderOpens,  \* number of recorders created and opened, lines 153-154
    recorderSize,   \* <<rw, rh>> the recorder was created with, None before
    lastRecorded,   \* the image of the last recorder.add_image
    lastPreview,    \* the image of the last on_frame_ready call
    fpsUpdates,     \* number of fps_tracer.update() calls
    error,          \* the exception that ended the last _process, or "none"
    \* history
    nSelect,        \* number of codec selections so far
    nRange,         \* number of distance edits so far
    frameConfigs,   \* the configurations in effect while the frame's encode
                    \* arguments were being read
    \* the codec contract applied to one sample (CodecSpec)
    cVariant, cMin, cMax, cDepth, cPixel, cDecoded,
    \* the remapping curves applied to one point (CurveSpec)
    xIn,            \* the point, in grid steps: x = xIn / CurveGrid
    xCurve,         \* "linear_interpolate" | "ease_out_quad"
    xOrder,         \* "encode-decode" | "decode-encode": which is applied first
    xOut,           \* the result of the first function
    xBack,          \* the result of the second function on xOut
    \* lines 165-179 applied to one sample of the depth buffer (MidasSpec)
    use_midas,      \* self.use_midas
    mSample,        \* a sample of depth_buffer.depth_buffer, line 170
    mDepth,         \* the sample of depth after lines 172-173, None before
    mPassed,        \* the sample of the depth passed to encode, line 179
    mError          \* the exception line 173 raised, or "none"

ctorVars == <<inputKind, record, sensorUnits>>
cfgVars == <<codec, depth_codec, min_distance, max_distance>>
editVars == <<nSelect, nRange>>
localVars == <<frame, min_value, max_value, rgbd, bgrd, calls>>
sinkVars == <<fbs, fbsCalls, lastSent, recorder, recorderOpens, recorderSize,
             lastRecorded, lastPreview, fpsUpdates>>
pipeVars == <<ctorVars, cfgVars, editVars, localVars, sinkVars, depth_units,
              phase, thread, pc, frameNo, lastEncode, error, frameConfigs>>
codecVars == <<cVariant, cMin, cMax, cDepth, cPixel, cDecoded>>
curveVars == <<xIn, xCurve, xOrder, xOut, xBack>>
midasVars == <<use_midas, mSample, mDepth, mPassed, mError>>
vars == <<pipeVars, codecVars, curveVars, midasVars>>

----------------------------------------------------------------------------
\* Bounds of the model.

MaxFrames == 2
MaxEdits == 2

\* Program constants (micrometres).
DefaultMinDistance == 0
DefaultMaxDistance == 6000000
DefaultDepthUnits == 1000

CodecTypes == {"Linear", "UniformHue"}
DefaultCodec == "Linear"
Threads == {"main", "worker"}
InputKinds == {"RealSense", "Depth", "RGB"}

\* The distances an operator or a caller of the constructor passes, and the
\* unit scales a sensor reports.
DistanceValues == {DefaultMinDistance, 3000, DefaultMaxDistance}
UnitValues == {DefaultDepthUnits, 2000}

None == [none |-> TRUE]
Unbound == [unbound |-> TRUE]

\* The shape of the input's frames, which is constant.
FrameWidth == 640
FrameHeight == 480

\* input.read() returning no frame, and returning the n-th frame
Miss == [miss |-> TRUE]
Frame(n) == [id |-> n, w |-> FrameWidth, h |-> FrameHeight]

----------------------------------------------------------------------------
\* Python's round(p / q) of a non-negative quotient: to the nearest integer,
\* a tie to the even one.

PyRoundFloor(p, q) == p \div q

PyRound(p, q) ==
    LET fl == p \div q
        r == p % q
    IN  IF 2 * r < q THEN fl
        ELSE IF 2 * r > q THEN fl + 1
        ELSE IF fl % 2 = 0 THEN fl ELSE fl + 1

\* codec.value(): a new codec instance of the variant; the instance created
\* by the n-th selection is numbered n, the constructor's is numbered 0.
NewCodec(variant, n) == [variant |-> variant, id |-> n]

Config == <<depth_codec, min_distance, max_distance>>

----------------------------------------------------------------------------
\* __init__: the state after construction, for every argument combination.

PipeInit ==
    /\ inputKind \in InputKinds
    /\ record \in BOOLEAN
    /\ sensorUnits \in IF inputKind = "RealSense" THEN UnitValues
                                                 ELSE {DefaultDepthUnits}
    /\ codec \in CodecTypes
    /\ depth_codec = NewCodec(codec, 0)
    /\ min_distance \in DistanceValues
    /\ max_distance \in DistanceValues
    /\ depth_units = DefaultDepthUnits
    /\ recorder = "none"
    /\ recorderOpens = 0
    /\ recorderSize = None
    /\ fbs = "new"
    /\ phase = "constructed"
    /\ thread = "none"
    /\ pc = "idle"
    /\ frameNo = 0
    /\ frame = None
    /\ min_value = 0
    /\ max_value = 0
    /\ rgbd = None
    /\ bgrd = Unbound
    /\ calls = <<>>
    /\ lastEncode = None
    /\ fbsCalls = {}
    /\ lastSent = None
    /\ lastRecorded = None
    /\ lastPreview = None
    /\ fpsUpdates = 0
    /\ error = "none"
    /\ nSelect = 0
    /\ nRange = 0
    /\ frameConfigs = {}

CodecIdle ==
    /\ cVariant = "Linear" /\ cMin = 0 /\ cMax = 1 /\ cDepth = 0
    /\ cPixel = None /\ cDecoded = None

CurveIdle ==
    /\ xIn = 0 /\ xCurve = "linear_interpolate" /\ xOrder = "encode-decode"
    /\ xOut = None /\ xBack = None

MidasIdle ==
    /\ use_midas = FALSE /\ mSample = 0 /\ mDepth = None /\ mPassed = None
    /\ mError = "none"

Init == PipeInit /\ CodecIdle /\ CurveIdle /\ MidasIdle

----------------------------------------------------------------------------
\* The operator's live edits.  The pipeline's fields are plain attributes and
\* a DataField: an edit is one assignment, made by a thread other than the
\* one running _process when the pipeline runs on a worker, and between two
\* frames otherwise.

CanEdit == phase # "released" /\ (pc = "idle" \/ thread = "worker")

\* The configurations a frame's encode arguments can have been read from:
\* collected from input.read() until the encode call.
Reading == pc \in {"min", "max", "encode"}

Seen(cfg) == IF Reading THEN frameConfigs \cup {cfg} ELSE frameConfigs

\* codec_changed(c), lines 57-58, on the n-th selection.
codec_changed_cached(c, n) == NewCodec(c, 0)

codec_changed(c, n) == NewCodec(c, n)

\* self.codec.value = c: the DataField stores c and fires on_changed.
SelectCodec(c) ==
    /\ CanEdit
    /\ nSelect + nRange < MaxEdits
    /\ nSelect' = nSelect + 1
    /\ codec' = c
    /\ depth_codec' = codec_changed(c, nSelect + 1)
    /\ frameConfigs' = Seen(<<depth_codec', min_distance, max_distance>>)
    /\ UNCHANGED <<min_distance, max_distance, nRange>>
    /\ UNCHANGED <<ctorVars, localVars, sinkVars, depth_units, phase, thread,
                   pc, frameNo, lastEncode, error>>
    /\ UNCHANGED <<codecVars, curveVars, midasVars>>

\* self.min_distance = v
SetMinDistance(v) ==
    /\ CanEdit
    /\ nSelect + nRange < MaxEdits
    /\ nRange' = nRange + 1
    /\ min_distance' = v
    /\ frameConfigs' = Seen(<<depth_codec, v, max_distance>>)
    /\ UNCHANGED <<codec, depth_codec, max_distance, nSelect>>
    /\ UNCHANGED <<ctorVars, localVars, sinkVars, depth_units, phase, thread,
                   pc, frameNo, lastEncode, error>>
    /\ UNCHANGED <<codecVars, curveVars, midasVars>>

\* self.max_distance = v
SetMaxDistance(v) ==
    /\ CanEdit
    /\ nSelect + nRange < MaxEdits
    /\ nRange' = nRange + 1
    /\ max_distance' = v
    /\ frameConfigs' = Seen(<<depth_codec, min_distance, v>>)
    /\ UNCHANGED <<codec, depth_codec, min_distance, nSelect>>
    /\ UNCHANGED <<ctorVars, localVars, sinkVars, depth_units, phase, thread,
                   pc, frameNo, lastEncode, error>>
    /\ UNCHANGED <<codecVars, curveVars, midasVars>>

----------------------------------------------------------------------------
\* The lifecycle.  Each call runs on the thread its caller is: t.

\* threading.current_thread() is threading.main_thread(), lines 91, 199, 214
OnMainAlways(t) == TRUE

OnMain(t) == t = "main"

\* _init, lines 88-92
PipelineInit(t) ==
    /\ phase = "constructed"
    /\ pc = "idle"
    /\ phase' = "running"
    /\ IF OnMain(t)
       THEN /\ fbs' = "setup"
            /\ fbsCalls' = fbsCalls \cup {<<"setup", t>>}
       ELSE UNCHANGED <<fbs, fbsCalls>>
    /\ UNCHANGED <<lastSent, recorder, recorderOpens, recorderSize,
                   lastRecorded, lastPreview, fpsUpdates>>
    /\ UNCHANGED <<ctorVars, cfgVars, editVars, localVars, depth_units, thread,
                   pc, frameNo, lastEncode, error, frameConfigs>>
    /\ UNCHANGED <<codecVars, curveVars, midasVars>>

\* self.record and self.recorder is not None, line 218
StopsRecording == record /\ recorder # "none"

\* _release, lines 213-219
PipelineRelease(t) ==
    /\ phase = "running"
    /\ pc = "idle"
    /\ phase' = "released"
    /\ IF OnMain(t)
       THEN /\ fbs' = "released"
            /\ fbsCalls' = fbsCalls \cup {<<"release", t>>}
       ELSE UNCHANGED <<fbs, fbsCalls>>
    /\ recorder' = IF StopsRecording THEN "closed" ELSE recorder
    /\ UNCHANGED <<lastSent, recorderOpens, recorderSize, lastRecorded,
                   lastPreview, fpsUpdates>>
    /\ UNCHANGED <<ctorVars, cfgVars, editVars, localVars, depth_units, thread,
                   pc, frameNo, lastEncode, error, frameConfigs>>
    /\ UNCHANGED <<codecVars, curveVars, midasVars>>

----------------------------------------------------------------------------
\* _process.  The steps between two reads of a field an operator can write
\* are separate actions; the steps that touch only what the pipeline thread
\* owns are taken together.

IsDepthInput == inputKind \in {"RealSense", "Depth"}

\* round(distance / depth_units), lines 177 and 178
ToDepthValueFloor(distance, units) == PyRoundFloor(distance, units)

ToDepthValue(distance, units) == PyRound(distance, units)

\* The images of a call.  depth names the frame whose encode result the image
\* holds, 0 where it holds none; frame names the RGB frame; size is
\* <<width, height>>.

\* rgbd = frame, line 197
RgbImage(f) ==
    [kind |-> "rgb", depth |-> 0, frame |-> f.id, order |-> "RGB",
     size |-> <<f.w, f.h>>]

\* np.hstack((depth_map, frame)), line 194, of the encode result of frame d
HstackFrameOnly(d, f) == RgbImage(f)

\* depth_map has the frame's shape from line 188 on; the two are set side by
\* side
Hstack(d, f) ==
    [kind |-> "rgbd", depth |-> d, frame |-> f.id, order |-> "RGB",
     size |-> <<f.w + f.w, f.h>>]

\* cv2.cvtColor(rgbd, cv2.COLOR_RGB2BGR), line 201
ToBGR(image) == [image EXCEPT !.order = "BGR"]

\* rw = w * 2, rh = h of the frame, lines 148-150
RecorderSize(f) == <<f.w * 2, f.h>>

\* self.record and self.recorder is None, line 147
StartsRecordingAlways == record

StartsRecording == record /\ recorder = "none"

\* frame is None, line 143
FrameIsNoneNever(f) == FALSE

FrameIsNone(f) == f = Miss

\* lines 141-163: input.read(); on a frame the recorder is opened if it is the
\* first one, and a RealSense input reports its depth units
ProcessRead(t, miss) ==
    /\ phase = "running"
    /\ pc = "idle"
    /\ thread' = t
    /\ frame' = IF miss THEN Miss ELSE Frame(frameNo + 1)
    /\ IF FrameIsNone(frame')
       THEN /\ pc' = "missed"
            /\ UNCHANGED <<frameNo, error, frameConfigs, recorder,
                           recorderOpens, recorderSize, depth_units>>
       ELSE /\ frameNo < MaxFrames
            /\ frameNo' = frameNo + 1
            /\ error' = "none"
            /\ IF StartsRecording
               THEN /\ recorder' = "open"
                    /\ recorderOpens' = recorderOpens + 1
                    /\ recorderSize' = RecorderSize(frame')
               ELSE UNCHANGED <<recorder, recorderOpens, recorderSize>>
            /\ depth_units' = IF inputKind = "RealSense" THEN sensorUnits
                                                         ELSE depth_units
            /\ pc' = IF IsDepthInput THEN "min" ELSE "rgb"
            /\ frameConfigs' = {Config}
    /\ UNCHANGED <<min_value, max_value, rgbd, bgrd, calls>>
    /\ UNCHANGED <<fbs, fbsCalls, lastSent, lastRecorded, lastPreview,
                   fpsUpdates>>
    /\ UNCHANGED <<ctorVars, cfgVars, editVars, phase, lastEncode>>
    /\ UNCHANGED <<codecVars, curveVars, midasVars>>

\* line 144: the return on a miss
ReturnOnMiss ==
    /\ pc = "missed"
    /\ pc' = "idle"
    /\ thread' = "none"
    /\ frame' = None
    /\ UNCHANGED <<min_value, max_value, rgbd, bgrd, calls>>
    /\ UNCHANGED <<ctorVars, cfgVars, editVars, sinkVars, depth_units, phase,
                   frameNo, lastEncode, error, frameConfigs>>
    /\ UNCHANGED <<codecVars, curveVars, midasVars>>

\* line 177
ComputeMinValue ==
    /\ pc = "min"
    /\ min_value' = ToDepthValue(min_distance, depth_units)
    /\ pc' = "max"
    /\ UNCHANGED <<frame, max_value, rgbd, bgrd, calls>>
    /\ UNCHANGED <<ctorVars, cfgVars, editVars, sinkVars, depth_units, phase,
                   thread, frameNo, lastEncode, error, frameConfigs>>
    /\ UNCHANGED <<codecVars, curveVars, midasVars>>

\* line 178
ComputeMaxValue ==
    /\ pc = "max"
    /\ max_value' = ToDepthValue(max_distance, depth_units)
    /\ pc' = "encode"
    /\ UNCHANGED <<frame, min_value, rgbd, bgrd, calls>>
    /\ UNCHANGED <<ctorVars, cfgVars, editVars, sinkVars, depth_units, phase,
                   thread, frameNo, lastEncode, error, frameConfigs>>
    /\ UNCHANGED <<codecVars, curveVars, midasVars>>

\* The codec instance self.depth_codec.encode(depth, min_value, max_value) is
\* called on, line 179, with the frame, the variant selected and the number
\* of selections made before the call; min_value and max_value are the locals.
EncodeCall == [codec |-> depth_codec, frame |-> frameNo,
               selected |-> codec, selections |-> nSelect]

\* lines 179-194: the encode call and the composite of its result
Encode ==
    /\ pc = "encode"
    /\ lastEncode' = EncodeCall
    /\ calls' = Append(calls, "encode")
    /\ rgbd' = Hstack(lastEncode'.frame, frame)
    /\ pc' = "send"
    /\ UNCHANGED <<frame, min_value, max_value, bgrd>>
    /\ UNCHANGED <<ctorVars, cfgVars, editVars, sinkVars, depth_units, phase,
                   thread, frameNo, error, frameConfigs>>
    /\ UNCHANGED <<codecVars, curveVars, midasVars>>

\* lines 195-197: an input without depth
RgbOnly ==
    /\ pc = "rgb"
    /\ rgbd' = RgbImage(frame)
    /\ pc' = "send"
    /\ UNCHANGED <<frame, min_value, max_value, bgrd, calls>>
    /\ UNCHANGED <<ctorVars, cfgVars, editVars, sinkVars, depth_units, phase,
                   thread, frameNo, lastEncode, error, frameConfigs>>
    /\ UNCHANGED <<codecVars, curveVars, midasVars>>

\* lines 199-202
Send ==
    /\ pc = "send"
    /\ IF OnMain(thread)
       THEN /\ bgrd' = ToBGR(rgbd)
            /\ lastSent' = bgrd'
            /\ fbsCalls' = fbsCalls \cup {<<"send", thread>>}
            /\ calls' = Append(calls, "send")
       ELSE UNCHANGED <<bgrd, lastSent, fbsCalls, calls>>
    /\ pc' = "rec"
    /\ UNCHANGED <<frame, min_value, max_value, rgbd>>
    /\ UNCHANGED <<fbs, recorder, recorderOpens, recorderSize, lastRecorded,
                   lastPreview, fpsUpdates>>
    /\ UNCHANGED <<ctorVars, cfgVars, editVars, depth_units, phase, thread,
                   frameNo, lastEncode, error, frameConfigs>>
    /\ UNCHANGED <<codecVars, curveVars, midasVars>>

\* lines 204-211: the recorder, the preview callback (installed, and the
\* preview enabled) and the FPS tracer with the pipeline_fps field.
\* Reading bgrd where line 201 did not run raises UnboundLocalError, which
\* ends _process at line 205.  The locals end with the call.
Record ==
    /\ pc = "rec"
    /\ IF record /\ recorder # "none" /\ bgrd = Unbound
       THEN /\ error' = "UnboundLocalError"
            /\ UNCHANGED <<lastRecorded, lastPreview, fpsUpdates>>
       ELSE /\ lastRecorded' = IF record /\ recorder # "none" THEN bgrd
                                                              ELSE lastRecorded
            /\ lastPreview' = rgbd
            /\ fpsUpdates' = fpsUpdates + 1
            /\ UNCHANGED error
    /\ pc' = "idle"
    /\ thread' = "none"
    /\ frame' = None
    /\ min_value' = 0
    /\ max_value' = 0
    /\ rgbd' = None
    /\ bgrd' = Unbound
    /\ calls' = <<>>
    /\ frameConfigs' = {}
    /\ UNCHANGED <<fbs, fbsCalls, lastSent, recorder, recorderOpens,
                   recorderSize>>
    /\ UNCHANGED <<ctorVars, cfgVars, editVars, depth_units, phase, frameNo,
                   lastEncode>>
    /\ UNCHANGED <<codecVars, curveVars, midasVars>>

Next ==
    \/ \E c \in CodecTypes : SelectCodec(c)
    \/ \E v \in DistanceValues : SetMinDistance(v)
    \/ \E v \in DistanceValues : SetMaxDistance(v)
    \/ \E t \in Threads : PipelineInit(t)
    \/ \E t \in Threads : PipelineRelease(t)
    \/ \E t \in Threads, miss \in BOOLEAN : ProcessRead(t, miss)
    \/ ReturnOnMiss
    \/ ComputeMinValue
    \/ ComputeMaxValue
    \/ Encode
    \/ RgbOnly
    \/ Send
    \/ Record

Spec == Init /\ [][Next]_vars

----------------------------------------------------------------------------
\* The codec contract (spacestream.codec: DepthCodec and its two variants),
\* applied to one depth sample: the shared normalisation, the Linear mapping
\* to a byte and the hue mapping, with their decoders.  A pixel is a record;
\* t = (d' - lo) / (hi - lo) is kept as the fraction it is.

\* The hue sweep, in hue steps.
HueSweep == 300

\* The integer bounds of the default range: round(6 / 0.001).
DefaultMaxValue == ToDepthValue(DefaultMaxDistance, DefaultDepthUnits)

\* The ranges and samples the contract is applied to.
MinValues == {0, 1, 500}
RangeWidths == {1, 2, 254, 255, 256, 1000, DefaultMaxValue}

Clamp(d, lo, hi) == IF d < lo THEN lo ELSE IF d > hi THEN hi ELSE d

\* The reserved colours: Linear keeps a validity channel beside the level,
\* the hue codec uses zero saturation and value.
LinearSentinelBlack == [valid |-> TRUE, level |-> 0]

LinearSentinel == [valid |-> FALSE, level |-> 0]

HueSentinel == [s |-> 0, v |-> 0, h |-> 0]

\* LinearCodec.encode: byte round(t * 255)
LinearEncode(d, lo, hi) ==
    IF d = 0 THEN LinearSentinel
    ELSE [valid |-> TRUE,
          level |-> PyRound((Clamp(d, lo, hi) - lo) * 255, hi - lo)]

\* LinearCodec.decode: lo + round(byte / 255 * (hi - lo))
LinearDecodeNoOffset(px, lo, hi) ==
    IF px = LinearSentinel THEN 0 ELSE PyRound(px.level * (hi - lo), 255)

LinearDecode(px, lo, hi) ==
    IF px = LinearSentinel THEN 0 ELSE lo + PyRound(px.level * (hi - lo), 255)

\* UniformHueColorization.encode: hue t * HueSweep at fixed saturation, value
HueEncode(d, lo, hi) ==
    IF d = 0 THEN HueSentinel
    ELSE [s |-> 1, v |-> 1,
          h |-> PyRound((Clamp(d, lo, hi) - lo) * HueSweep, hi - lo)]

\* UniformHueColorization.decode: the sentinel is checked before the hue
HueDecode(px, lo, hi) ==
    IF px = HueSentinel THEN 0 ELSE lo + PyRound(px.h * (hi - lo), HueSweep)

EncodeSample(variant, d, lo, hi) ==
    IF variant = "Linear" THEN LinearEncode(d, lo, hi) ELSE HueEncode(d, lo, hi)

DecodeSample(variant, px, lo, hi) ==
    IF variant = "Linear" THEN LinearDecode(px, lo, hi)
                          ELSE HueDecode(px, lo, hi)

Sentinel(variant) == IF variant = "Linear" THEN LinearSentinel ELSE HueSentinel

\* A constructed pipeline that no one runs.
PipeIdle ==
    /\ PipeInit
    /\ inputKind = "RealSense"
    /\ record = FALSE
    /\ sensorUnits = DefaultDepthUnits
    /\ codec = DefaultCodec
    /\ min_distance = DefaultMinDistance
    /\ max_distance = DefaultMaxDistance

\* Every variant, every valid range lo < hi, every sample from 0 to one
\* above the range.
CodecInit ==
    /\ cVariant \in CodecTypes
    /\ cMin \in MinValues
    /\ \E w \in RangeWidths : cMax = cMin + w
    /\ cDepth \in 0 .. (cMax + 1)
    /\ cPixel = None
    /\ cDecoded = None

CodecEncode ==
    /\ cPixel = None
    /\ cPixel' = EncodeSample(cVariant, cDepth, cMin, cMax)
    /\ UNCHANGED <<cVariant, cMin, cMax, cDepth, cDecoded>>
    /\ UNCHANGED <<pipeVars, curveVars, midasVars>>

CodecDecode ==
    /\ cPixel # None
    /\ cDecoded = None
    /\ cDecoded' = [depth |-> DecodeSample(cVariant, cPixel, cMin, cMax)]
    /\ UNCHANGED <<cVariant, cMin, cMax, cDepth, cPixel>>
    /\ UNCHANGED <<pipeVars, curveVars, midasVars>>

CodecNext == CodecEncode \/ CodecDecode

CodecSpecInit == PipeIdle /\ CodecInit /\ CurveIdle /\ MidasIdle

CodecSpec == CodecSpecInit /\ [][CodecNext]_vars

----------------------------------------------------------------------------
\* The remapping curves of lines 22-28, applied to a point of [0, 1].  A real
\* is the fraction num / den, and the curves are computed exactly; the square
\* root is computed to the resolution of the grid, rounded down.

CurveGrid == 64

Curves == {"linear_interpolate", "ease_out_quad"}

Frac(n, d) == [num |-> n, den |-> d]

FracLess(a, b) == a.num * b.den < b.num * a.den

\* lines 22-23
linear_interpolate(x) == x

\* lines 26-28: x * (2 - x)
ease_out_quad_slip(x) == Frac(x.num * (x.den - x.num), x.den * x.den)

ease_out_quad(x) == Frac(x.num * (2 * x.den - x.num), x.den * x.den)

ISqrt(n) == CHOOSE r \in 0 .. n : r * r <= n /\ (r + 1) * (r + 1) > n

\* line 27, "decode = sqrt(x)": the decode counterpart the code documents
ease_out_quad_decode(x) ==
    Frac(ISqrt((x.num * CurveGrid * CurveGrid) \div x.den), CurveGrid)

Curve(name, x) ==
    IF name = "ease_out_quad" THEN ease_out_quad(x) ELSE linear_interpolate(x)

CurveDecode(name, x) ==
    IF name = "ease_out_quad" THEN ease_out_quad_decode(x)
                              ELSE linear_interpolate(x)

First(name, order, x) ==
    IF order = "encode-decode" THEN Curve(name, x) ELSE CurveDecode(name, x)

Second(name, order, x) ==
    IF order = "encode-decode" THEN CurveDecode(name, x) ELSE Curve(name, x)

CurveInit ==
    /\ xIn \in 0 .. CurveGrid
    /\ xCurve \in Curves
    /\ xOrder \in {"encode-decode", "decode-encode"}
    /\ xOut = None
    /\ xBack = None

ApplyFirst ==
    /\ xOut = None
    /\ xOut' = First(xCurve, xOrder, Frac(xIn, CurveGrid))
    /\ UNCHANGED <<xIn, xCurve, xOrder, xBack>>
    /\ UNCHANGED <<pipeVars, codecVars, midasVars>>

ApplySecond ==
    /\ xOut # None
    /\ xBack = None
    /\ xBack' = Second(xCurve, xOrder, xOut)
    /\ UNCHANGED <<xIn, xCurve, xOrder, xOut>>
    /\ UNCHANGED <<pipeVars, codecVars, midasVars>>

CurveNext == ApplyFirst \/ ApplySecond

CurveSpecInit == PipeIdle /\ CodecIdle /\ CurveInit /\ MidasIdle

CurveSpec == CurveSpecInit /\ [][CurveNext]_vars

----------------------------------------------------------------------------
\* The depth buffer of a depth input, lines 165-179, followed for one sample.
\* With use_midas the buffer is the estimator's, whose prediction_bit_depth is
\* 16 (line 80): an array of unsigned 16-bit samples.

\* pow(2, 16), line 173
SampleLimit == 2 ^ 16

Samples == 0 .. SampleLimit - 1

\* pow(2, 16) - depth on an unsigned 16-bit array: the Python integer 65536
\* does not fit the array's type.  A NumPy with value-based casting promotes
\* the result to a wider integer type; a NumPy that keeps the array's type for
\* Python integers raises OverflowError.
NumpyOutcomes == {"promote", "raise"}

MidasInit ==
    /\ use_midas \in BOOLEAN
    /\ mSample \in Samples
    /\ mDepth = None
    /\ mPassed = None
    /\ mError = "none"

\* lines 172-173
InvertDepth(outcome) ==
    /\ mDepth = None
    /\ mError = "none"
    /\ IF ~use_midas
       THEN /\ mDepth' = [sample |-> mSample]
            /\ UNCHANGED mError
       ELSE IF outcome = "promote"
            THEN /\ mDepth' = [sample |-> SampleLimit - mSample]
                 /\ UNCHANGED mError
            ELSE /\ mError' = "OverflowError"
                 /\ UNCHANGED mDepth
    /\ UNCHANGED <<use_midas, mSample, mPassed>>
    /\ UNCHANGED <<pipeVars, codecVars, curveVars>>

\* line 179: depth is the first argument of encode
PassToEncode ==
    /\ mDepth # None
    /\ mPassed = None
    /\ mPassed' = mDepth
    /\ UNCHANGED <<use_midas, mSample, mDepth, mError>>
    /\ UNCHANGED <<pipeVars, codecVars, curveVars>>

MidasNext ==
    \/ \E outcome \in NumpyOutcomes : InvertDepth(outcome)
    \/ PassToEncode

MidasSpecInit == PipeIdle /\ CodecIdle /\ CurveIdle /\ MidasInit

MidasSpec == MidasSpecInit /\ [][MidasNext]_vars

----------------------------------------------------------------------------
\* Properties of the pipeline (Spec).

\* The frame in hand has made its encode call; min_value and max_value are
\* still the arguments of that call.
Encoded == pc \in {"send", "rec"} /\ lastEncode # None
           /\ lastEncode.frame = frameNo

RangeValid == ToDepthValue(min_distance, depth_units)
                  < ToDepthValue(max_distance, depth_units)

\* n is round(p / q): no integer is nearer to p / q, and of two integers
\* equally near n is the even one.
Dist(a, b) == IF a < b THEN b - a ELSE a - b

IsRounded(n, p, q) ==
    /\ 2 * Dist(n * q, p) <= q
    /\ 2 * Dist(n * q, p) = q => n % 2 = 0

\* C1: the codec instance, min_value and max_value of a frame's encode call
\* all come from one configuration (depth_codec, min_distance, max_distance)
\* that was in effect at a single moment while the frame was processed.
C1_FrameUsesOneConfiguration ==
    Encoded =>
        \E cfg \in frameConfigs :
            /\ lastEncode.codec = cfg[1]
            /\ min_value = ToDepthValue(cfg[2], depth_units)
            /\ max_value = ToDepthValue(cfg[3], depth_units)

\* C2: the codec instance the pipeline holds, and every encode call runs on,
\* is an instance of the variant selected last, created by that selection (by
\* the constructor when there was none); of two encode calls with a selection
\* between them the second does not run on the instance of the first.
C2_HoldsLastSelected ==
    /\ depth_codec.variant = codec
    /\ depth_codec.id = nSelect
    /\ lastEncode # None =>
           /\ lastEncode.codec.variant = lastEncode.selected
           /\ lastEncode.codec.id = lastEncode.selections

C2_SwitchGivesNewInstance ==
    (/\ lastEncode # None
     /\ lastEncode' # None
     /\ lastEncode'.frame # lastEncode.frame
     /\ lastEncode'.selections > lastEncode.selections)
        => lastEncode'.codec # lastEncode.codec

C2_EncodeOnLastSelected ==
    [](C2_HoldsLastSelected) /\ [][C2_SwitchGivesNewInstance]_vars

\* C2 witness: the second frame's encode call was made after a selection that
\* followed the first frame's.
C2_Witness ==
    /\ Encoded
    /\ lastEncode.frame = 2
    /\ lastEncode.selections = 1
    /\ lastEncode.codec.id = 1

\* C3: every encode call is made with min_value < max_value.
C3_EncodePrecondition == Encoded => min_value < max_value

\* C4: a step that changes the distance range of a pipeline with a valid range
\* leaves a valid range: a change to min_value >= max_value is rejected.
C4_InvalidRangeRejected ==
    [][(/\ RangeValid
        /\ <<min_distance, max_distance>>' # <<min_distance, max_distance>>)
           => RangeValid']_vars

\* C5: every fbs_client.setup, send and release call is made by the main
\* thread; a lifecycle call running on a worker makes none of them.
C5_TransportOnMainThread == \A call \in fbsCalls : call[2] = "main"

\* C5 witness: the main thread has set the transport up and sent, and a frame
\* processed on the worker has passed line 199 without sending.
C5_Witness ==
    /\ <<"setup", "main">> \in fbsCalls
    /\ <<"send", "main">> \in fbsCalls
    /\ thread = "worker"
    /\ pc = "rec"
    /\ bgrd = Unbound

\* C6: line 177 sets min_value to round(min_distance / depth_units) and line
\* 178 max_value to round(max_distance / depth_units), of the values the
\* fields hold then; with min_distance = 0, max_distance = 6 and
\* depth_units = 0.001 the encode call receives 0 and 6000.
C6_Line177 ==
    (pc = "min" /\ pc' = "max")
        => IsRounded(min_value', min_distance, depth_units)

C6_Line178 ==
    (pc = "max" /\ pc' = "encode")
        => IsRounded(max_value', max_distance, depth_units)

C6_Defaults ==
    (/\ Encoded
     /\ nRange = 0
     /\ min_distance = DefaultMinDistance
     /\ max_distance = DefaultMaxDistance
     /\ depth_units = DefaultDepthUnits)
        => min_value = 0 /\ max_value = 6000

C6_EncodeBounds ==
    [](C6_Defaults) /\ [][C6_Line177 /\ C6_Line178]_vars

\* C6 witness: a frame encoded with the default range and units.
C6_Witness ==
    /\ Encoded
    /\ nRange = 0
    /\ min_distance = DefaultMinDistance
    /\ max_distance = DefaultMaxDistance
    /\ depth_units = DefaultDepthUnits
    /\ min_value = 0
    /\ max_value = 6000

----------------------------------------------------------------------------
\* Properties of the codec contract (CodecSpec).

CeilDiv(a, b) == (a + b - 1) \div b

\* C7: the Linear codec's round trip of a sample d of the range is within
\* ceil((max_value - min_value) / 255) of d; in the range 0..6000 the sample
\* 3000 decodes to within 24 of 3000.
C7_LinearRoundTrip ==
    (cVariant = "Linear" /\ cDecoded # None /\ cMin <= cDepth /\ cDepth <= cMax)
        => /\ Dist(cDecoded.depth, cDepth) <= CeilDiv(cMax - cMin, 255)
           /\ (cMin = 0 /\ cMax = 6000 /\ cDepth = 3000)
                  => Dist(cDecoded.depth, 3000) <= 24

\* C7 witness: 3000 in the range 0..6000, encoded to a level that decodes to
\* another depth within the bound.
C7_Witness ==
    /\ cVariant = "Linear" /\ cMin = 0 /\ cMax = 6000 /\ cDepth = 3000
    /\ cDecoded # None
    /\ cDecoded.depth # cDepth
    /\ Dist(cDecoded.depth, cDepth) <= 24

\* C8: in every variant and valid range the sample 0 encodes to the reserved
\* sentinel colour and decodes to 0, and no nonzero sample encodes to it.
C8_SentinelStable ==
    /\ (cPixel # None /\ cDepth = 0) => cPixel = Sentinel(cVariant)
    /\ (cPixel # None /\ cDepth # 0) => cPixel # Sentinel(cVariant)
    /\ (cDecoded # None /\ cDepth = 0) => cDecoded.depth = 0

\* C8 witness: the sample 0 of a range that does not start at 0, decoded.
C8_Witness ==
    /\ cDepth = 0 /\ cMin > 0
    /\ cPixel = Sentinel(cVariant)
    /\ cDecoded = [depth |-> 0]

----------------------------------------------------------------------------
\* Properties of the remapping curves (CurveSpec).

Near(a, b) ==
    Dist(a.num * b.den, b.num * a.den) * CurveGrid <= 2 * a.den * b.den

\* C10: sqrt undoes ease_out_quad and ease_out_quad undoes sqrt, at every
\* point of [0, 1].
C10_EaseOutInverseLaw ==
    (xCurve = "ease_out_quad" /\ xBack # None)
        => Near(xBack, Frac(xIn, CurveGrid))

----------------------------------------------------------------------------
\* What _process does to its collaborators and to the pipeline's fields.
Effects == <<lastEncode, sinkVars, depth_units, error>>

\* C11: a _process call whose input.read() returned no frame returns at line
\* 144, and no step of it makes an encode call, sends, creates or writes the
\* recorder, invokes on_frame_ready, or updates the FPS tracer or pipeline_fps.
C11_MissChangesNothing ==
    /\ [](frame = Miss => pc = "missed")
    /\ [][(frame = Miss \/ frame' = Miss) => UNCHANGED Effects]_vars

\* C11 witness: a miss after a frame was sent and recorded, with recording on.
C11_Witness ==
    /\ frame = Miss
    /\ pc = "missed"
    /\ record
    /\ recorder = "open"
    /\ lastSent # None
    /\ lastRecorded # None

\* The call is past line 202, on the main thread.
SentOnMain == pc = "rec" /\ thread = "main"

\* C12: a frame processed on the main thread makes, with a depth input, one
\* encode call and then one send call, of the composite of that frame's encode
\* result and RGB frame; with another input no encode call and one send call,
\* of the RGB frame alone.  The rest of the call makes no further one.
C12_OneEncodeThenOneSend ==
    /\ [](SentOnMain /\ IsDepthInput =>
            /\ calls = <<"encode", "send">>
            /\ lastEncode.frame = frame.id
            /\ lastSent.kind = "rgbd" /\ lastSent.order = "BGR"
            /\ lastSent.depth = frame.id /\ lastSent.frame = frame.id)
    /\ [](SentOnMain /\ ~IsDepthInput =>
            /\ calls = <<"send">>
            /\ (lastEncode = None \/ lastEncode.frame # frame.id)
            /\ lastSent.kind = "rgb" /\ lastSent.order = "BGR"
            /\ lastSent.depth = 0 /\ lastSent.frame = frame.id)
    /\ [][pc = "rec" => UNCHANGED <<lastEncode, lastSent, fbsCalls>>]_vars

\* C12 witness: the second frame of a depth input, sent by the main thread
\* after the first one ran on a worker.
C12_Witness ==
    /\ SentOnMain
    /\ IsDepthInput
    /\ frame = Frame(2)
    /\ lastSent.frame = 2
    /\ <<"setup", "main">> \in fbsCalls

\* The step is lines 204-211 of a call made with recording on and the
\* recorder open.
RecordingStep == pc = "rec" /\ pc' = "idle" /\ record /\ recorder = "open"

\* C13: with recording on and the recorder open, recorder.add_image receives
\* the BGR composite of the frame being processed, on the main thread and on a
\* worker: the call does not end in an error, and the image is this frame's.
C13_RecordsThisFrame ==
    [][RecordingStep =>
          /\ error' = "none"
          /\ lastRecorded' # None
          /\ lastRecorded'.frame = frame.id
          /\ lastRecorded'.order = "BGR"
          /\ lastRecorded'.kind = (IF IsDepthInput THEN "rgbd" ELSE "rgb")]_vars

\* C14: with use_midas on, every sample passed to encode is an unsigned 16-bit
\* value, one of 0 .. 65535.
C14_MidasSampleIs16Bit ==
    (use_midas /\ mPassed # None) =>
        (0 <= mPassed.sample /\ mPassed.sample <= SampleLimit - 1)

\* C15: with recording on, one recorder at most is created and opened, by the
\* first frame read; add_image is called on an open recorder only; _release
\* closes the recorder exactly when one was opened, and nothing else does.
\* With recording off no recorder is created, written or closed.
C15_RecorderLifecycle ==
    /\ [](recorderOpens <= 1)
    /\ [](recorder = "none" <=> recorderOpens = 0)
    /\ [](~record => recorder = "none" /\ lastRecorded = None)
    /\ [](phase = "released" => recorder # "open")
    /\ [][recorderOpens' # recorderOpens =>
            frameNo = 0 /\ frameNo' = 1 /\ recorder' = "open"]_vars
    /\ [][lastRecorded' # lastRecorded =>
            recorder = "open" /\ recorder' = "open"]_vars
    /\ [][recorder' = "closed" /\ recorder # "closed" =>
            recorder = "open" /\ phase = "running" /\ phase' = "released"]_vars

\* C15 witness: a released pipeline whose recorder was opened by the first
\* frame, written by the second and closed.
C15_Witness ==
    /\ phase = "released"
    /\ recorder = "closed"
    /\ recorderOpens = 1
    /\ lastRecorded # None
    /\ lastRecorded.frame = 2

\* C16: every image recorder.add_image has received has the width and the
\* height the recorder was created with, for every class of input.
C16_RecordedSizeIsRecorderSize ==
    lastRecorded # None => lastRecorded.size = recorderSize

\* C17: every fbs_client.send call is made on a transport that setup has been
\* called on and release has not, whichever threads run _init, _process and
\* _release.
C17_SendBetweenSetupAndRelease ==
    [][lastSent' # lastSent => fbs = "setup"]_vars

====
